---------------------------- MODULE Spec2Model ----------------------------
(***************************************************************************)
(* Model of Table.py: TextTable (render, _align_text, _get_row_values,     *)
(* _extract_headers) and TextTables (group).                               *)
(*                                                                         *)
(* A Python str is a sequence of one-character strings.  The box-drawing   *)
(* glyphs are single characters in the program; here each is one element   *)
(* named by its code point ("U250C" is the top-left corner).  A Python     *)
(* value is a tagged record: a str or an int.  A dict is its key list in   *)
(* insertion order plus its key -> value function.  A call that raises     *)
(* yields a result whose exc field names the exception.                    *)
(***************************************************************************)
EXTENDS Integers, Sequences, FiniteSets, TLC

VARIABLES tables, call, out, first

vars == <<tables, call, out, first>>

---------------------------------------------------------------------------
(* Bounds of the model *)

MaxRows == 2
MaxCols == 2
MaxTables == 2
MaxSpacing == 2
MaxTextLen == 2
MaxWidth == 4

---------------------------------------------------------------------------
(* Characters and Python str primitives *)

SP == " "
NL == "\n"

TopLeft == "U250C"
TopTee == "U252C"
TopRight == "U2510"
Horizontal == "U2500"
Vertical == "U2502"
LeftTee == "U251C"
Cross == "U253C"
RightTee == "U2524"
BottomLeft == "U2514"
BottomTee == "U2534"
BottomRight == "U2518"

Max(a, b) == IF a >= b THEN a ELSE b

SetMax(S) == CHOOSE m \in S : \A x \in S : x <= m

\* the element of a one-element set; {F(x) : x \in {e}} computes e once
\* however often F uses it
Only(S) == CHOOSE x \in S : TRUE

\* c * n for a one-character string c
Repeat(c, n) == [k \in 1..n |-> c]

\* sep.join(parts)
RECURSIVE Join(_, _)
Join(sep, parts) ==
    IF parts = <<>> THEN <<>>
    ELSE IF Len(parts) = 1 THEN parts[1]
    ELSE parts[1] \o sep \o Join(sep, Tail(parts))

\* the decimal digits of a natural number, as str(int) prints them
RECURSIVE Digits(_)
Digits(n) ==
    LET d == <<"0", "1", "2", "3", "4", "5", "6", "7", "8", "9">>[(n % 10) + 1]
    IN  IF n < 10 THEN <<d>> ELSE Append(Digits(n \div 10), d)

StrV(s) == [kind |-> "str", s |-> s, n |-> 0]
IntV(n) == [kind |-> "int", s |-> <<>>, n |-> n]

\* str(v)
Str(v) == IF v.kind = "int" THEN Digits(v.n) ELSE v.s

\* text.ljust(width): the text itself when it is already that long
ljust(text, width) ==
    IF width <= Len(text) THEN text
    ELSE text \o Repeat(SP, width - Len(text))

\* text.rjust(width)
rjust(text, width) ==
    IF width <= Len(text) THEN text
    ELSE Repeat(SP, width - Len(text)) \o text

\* centering that always leaves the odd space on the right
center_extra_right(text, width) ==
    IF width <= Len(text) THEN text
    ELSE Repeat(SP, (width - Len(text)) \div 2) \o text
         \o Repeat(SP, (width - Len(text)) - ((width - Len(text)) \div 2))

\* text.center(width): CPython pads left with pad/2 + (pad & width & 1)
center(text, width) ==
    IF width <= Len(text) THEN text
    ELSE LET pad == width - Len(text)
             left == (pad \div 2) + (IF pad % 2 = 1 /\ width % 2 = 1 THEN 1 ELSE 0)
         IN  Repeat(SP, left) \o text \o Repeat(SP, pad - left)

---------------------------------------------------------------------------
(* TextTable *)

Aligns == {"left", "right", "center", "justify"}

\* the branches for "right" and "center" taken for each other
align_text_swapped(text, width, align) ==
    IF align = "right" THEN center(text, width)
    ELSE IF align = "center" THEN rjust(text, width)
    ELSE ljust(text, width)

_align_text(text, width, align) ==
    IF align = "right" THEN rjust(text, width)
    ELSE IF align = "center" THEN center(text, width)
    ELSE ljust(text, width)

\* a dict record and a list record
DictRow(keys, val) == [isdict |-> TRUE, keys |-> keys, val |-> val, items |-> <<>>]
ListRow(items) == [isdict |-> FALSE, keys |-> <<>>, val |-> <<>>, items |-> items]

ColName(i) == <<"C", "o", "l">> \o Digits(i)

_extract_headers(data) ==
    IF data = <<>> THEN <<>>
    ELSE IF data[1].isdict THEN data[1].keys
    ELSE [k \in 1..Len(data[1].items) |-> ColName(k - 1)]

\* TextTable(data, headers, header_padding); headers = <<>> stands for both
\* None and the empty list, which `headers or ...` treats alike
TextTable(data, headers, header_padding) ==
    [data |-> data,
     headers |-> IF headers # <<>> THEN headers ELSE _extract_headers(data),
     header_padding |-> header_padding]

\* row.get(h, "")
DictGet(row, h) ==
    IF \E k \in 1..Len(row.keys) : row.keys[k] = h THEN row.val[h] ELSE StrV(<<>>)

_get_row_values(headers, row) ==
    IF row.isdict
    THEN [k \in 1..Len(headers) |-> Str(DictGet(row, headers[k]))]
    ELSE [k \in 1..Len(row.items) |-> Str(row.items[k])]


Ok(t, lines) == [exc |-> "", lines |-> lines, self |-> t]
Raise(t, e) == [exc |-> e, lines |-> <<>>, self |-> t]

\* the inner loop without max: col_widths[i] = len(val)
WidenRowNoMax(cw, values) ==
    IF cw.exc # "" THEN cw
    ELSE IF Len(values) > Len(cw.w) THEN [exc |-> "IndexError", w |-> cw.w]
    ELSE [exc |-> "",
          w |-> [k \in 1..Len(cw.w) |->
                    IF k <= Len(values) THEN Len(values[k]) ELSE cw.w[k]]]

\* one pass of the inner loop of lines 35-36 over a row's values:
\* col_widths[i] = max(col_widths[i], len(val)), IndexError past the end
WidenRow(cw, values) ==
    IF cw.exc # "" THEN cw
    ELSE IF Len(values) > Len(cw.w) THEN [exc |-> "IndexError", w |-> cw.w]
    ELSE [exc |-> "",
          w |-> [k \in 1..Len(cw.w) |->
                    IF k <= Len(values) THEN Max(cw.w[k], Len(values[k]))
                    ELSE cw.w[k]]]

\* the loop of lines 33-36 over the rows n..Len(data)
RECURSIVE WidenFrom(_, _, _)
WidenFrom(t, cw, n) ==
    IF n > Len(t.data) THEN cw
    ELSE WidenFrom(t, WidenRow(cw, _get_row_values(t.headers, t.data[n])), n + 1)

col_widths(t) ==
    WidenFrom(t, [exc |-> "", w |-> [k \in 1..Len(t.headers) |-> Len(t.headers[k])]], 1)

\* l + j.join("─" * (w + 2) for w in col_widths) + r
Border(l, j, r, w) ==
    <<l>> \o Join(<<j>>, [k \in 1..Len(w) |-> Repeat(Horizontal, w[k] + 2)]) \o <<r>>

\* "│ " + " │ ".join(cells) + " │"
RowLine(cells) ==
    <<Vertical, SP>> \o Join(<<SP, Vertical, SP>>, cells) \o <<SP, Vertical>>

\* [_align_text(v, col_widths[j], align) for j, v in enumerate(values)]
AlignCells(values, w, align) ==
    [j \in 1..Len(values) |-> _align_text(values[j], w[j], align)]

\* the loop with a divider after every row, the last one too
RECURSIVE DataLinesDividerAfterEach(_, _, _, _, _)
DataLinesDividerAfterEach(t, w, divider, align, n) ==
    IF n > Len(t.data) THEN <<>>
    ELSE <<RowLine(AlignCells(_get_row_values(t.headers, t.data[n]), w, align))>>
         \o <<divider>>
         \o DataLinesDividerAfterEach(t, w, divider, align, n + 1)

\* the loop of lines 59-68 over the rows n..Len(data): a row line, then a
\* divider unless the row is the last
RECURSIVE DataLines(_, _, _, _, _)
DataLines(t, w, divider, align, n) ==
    IF n > Len(t.data) THEN <<>>
    ELSE <<RowLine(AlignCells(_get_row_values(t.headers, t.data[n]), w, align))>>
         \o (IF n < Len(t.data) THEN <<divider>> ELSE <<>>)
         \o DataLines(t, w, divider, align, n + 1)

\* lines 41-73, once the column widths are known
TableLines(t, w, align) ==
    <<Border(TopLeft, TopTee, TopRight, w)>>
    \o <<RowLine(AlignCells(t.headers, w, align))>>
    \o (IF t.header_padding
        THEN <<RowLine([k \in 1..Len(t.headers) |-> _align_text(<<SP>>, w[k], align)])>>
        ELSE <<>>)
    \o <<Border(LeftTee, Cross, RightTee, w)>>
    \o DataLines(t, w, Border(LeftTee, Cross, RightTee, w), align, 1)
    \o <<Border(BottomLeft, BottomTee, BottomRight, w)>>

\* lines 38-73 after the width loop, which has raised or left cw.w
RenderWith(t, cw, align) ==
    IF cw.exc # "" THEN Raise(t, cw.exc)
    ELSE Ok(t, TableLines(t, cw.w, align))

\* render without the early return of lines 28-29
render_without_empty_check(t, align) ==
    Only({RenderWith(t, cw, align) : cw \in {col_widths(t)}})

\* render that keeps the aligned header cells in self.headers
render_storing_headers(t, align) ==
    IF t.data = <<>> THEN Ok(t, <<>>)
    ELSE Only({IF cw.exc # "" THEN Raise(t, cw.exc)
               ELSE Ok([t EXCEPT !.headers = AlignCells(t.headers, cw.w, align)],
                       TableLines(t, cw.w, align)) :
               cw \in {col_widths(t)}})

\* t.render(align): the lines returned or the exception raised, and the
\* table object as the call leaves it
render(t, align) ==
    IF t.data = <<>> THEN Ok(t, <<>>)
    ELSE Only({RenderWith(t, cw, align) : cw \in {col_widths(t)}})

---------------------------------------------------------------------------
(* TextTables *)

\* max(len(t) for t in rendered_tables), for a non-empty list
RECURSIVE MaxLen(_)
MaxLen(seqs) ==
    IF Len(seqs) = 1 THEN Len(seqs[1])
    ELSE Max(Len(seqs[1]), MaxLen(Tail(seqs)))

\* [len(t[0]) if t else 0 for t in rendered_tables]
TableWidths(rendered_tables) ==
    [i \in 1..Len(rendered_tables) |->
        IF rendered_tables[i] # <<>> THEN Len(rendered_tables[i][1]) ELSE 0]

\* a blank line as wide as the widest table
BlankLineWidest(table_widths, i) ==
    Repeat(SP, SetMax({table_widths[k] : k \in 1..Len(table_widths)}))

\* the blank line appended to table i while padding: " " * table_widths[i]
BlankLine(table_widths, i) == Repeat(SP, table_widths[i])

\* while len(table_lines) < max_height: table_lines.append(blank)
PadLines(table_lines, max_height, blank) ==
    [r \in 1..Max(Len(table_lines), max_height) |->
        IF r <= Len(table_lines) THEN table_lines[r] ELSE blank]

\* the loop of lines 120-122 over all the rendered tables
PadAll(rendered_tables, max_height, table_widths) ==
    [i \in 1..Len(rendered_tables) |->
        PadLines(rendered_tables[i], max_height, BlankLine(table_widths, i))]

\* lines 125-131: the rows joined by the gap, then by line breaks
Combine(padded, max_height, gap) ==
    Join(<<NL>>, [r \in 1..max_height |->
                     Join(gap, [i \in 1..Len(padded) |-> padded[i][r]])])

GroupResult(ts, exc, text, rendered_tables) ==
    [exc |-> exc, text |-> text, rendered_tables |-> rendered_tables, tables |-> ts]

\* lines 113-131, with the padded rendered_tables kept beside the text
GroupLines(ts, padded, max_height, spacing) ==
    GroupResult(ts, "", Combine(padded, max_height, Repeat(SP, spacing)), padded)

\* line 111 has rendered every table (rendered[i] is the outcome of
\* ts[i].render(align)); the first one that raised ends the call
GroupRendered(ts, rendered, spacing) ==
    IF \E i \in 1..Len(ts) : rendered[i].exc # ""
    THEN LET i == CHOOSE i \in 1..Len(ts) :
                     /\ rendered[i].exc # ""
                     /\ \A j \in 1..(i - 1) : rendered[j].exc = ""
         IN  GroupResult([j \in 1..Len(ts) |-> IF j <= i THEN rendered[j].self ELSE ts[j]],
                         rendered[i].exc, <<>>, <<>>)
    ELSE GroupLines([i \in 1..Len(ts) |-> rendered[i].self],
                    PadAll([i \in 1..Len(ts) |-> rendered[i].lines],
                           MaxLen([i \in 1..Len(ts) |-> rendered[i].lines]),
                           TableWidths([i \in 1..Len(ts) |-> rendered[i].lines])),
                    MaxLen([i \in 1..Len(ts) |-> rendered[i].lines]),
                    spacing)

\* self.group(spacing=spacing, align=align) on the tables ts: the text
\* returned or the exception raised, the local rendered_tables as the call
\* leaves them, and the stored tables after the call
group(ts, spacing, align) ==
    IF ts = <<>> THEN GroupResult(ts, "", <<>>, <<>>)
    ELSE Only({GroupRendered(ts, rendered, spacing) :
                  rendered \in {[i \in 1..Len(ts) |-> render(ts[i], align)]}})

---------------------------------------------------------------------------
(* Inputs *)

\* all sequences over S of length 0..n
SeqsUpTo(S, n) == UNION {[1..k -> S] : k \in 0..n}

Keys == {<<"a">>, <<"a", "b", "c">>}
HeaderNames == {<<>>, <<"a", "b", "c">>}
DictValues == {IntV(22)}
ListValues == {StrV(<<"x", "y">>)}

\* key lists without repetition: a dict holds each key once
KeyLists == {ks \in SeqsUpTo(Keys, Cardinality(Keys)) :
                \A i, j \in 1..Len(ks) : i # j => ks[i] # ks[j]}

DictRows ==
    UNION {{DictRow(ks, val) : val \in [{ks[k] : k \in 1..Len(ks)} -> DictValues]} :
              ks \in KeyLists}

ListRows == {ListRow(items) : items \in SeqsUpTo(ListValues, MaxCols)}

\* list[dict] or list[list]
DataSets == SeqsUpTo(DictRows, MaxRows) \cup SeqsUpTo(ListRows, MaxRows)

HeaderArgs == SeqsUpTo(HeaderNames, MaxCols)

RichTables ==
    {TextTable(data, headers, hp) :
        data \in DataSets, headers \in HeaderArgs, hp \in BOOLEAN}

\* TextTable instances and raw record lists, which TextTables.__init__ wraps
\* as TextTable(t): heights 5, 4, 0 and 6, widths 8, 6, 0 and 2, and a table
\* whose second record is longer than its header list
TableOneList == TextTable(<<ListRow(<<StrV(<<"x", "y">>)>>)>>, <<>>, TRUE)
TableOneDict ==
    TextTable(<<DictRow(<<<<"a">>>>, [k \in {<<"a">>} |-> IntV(22)])>>, <<>>, FALSE)
TableNoRows == TextTable(<<>>, <<>>, TRUE)
TableNoCols == TextTable(<<ListRow(<<>>)>>, <<>>, TRUE)
TableLongRow ==
    TextTable(<<ListRow(<<>>), ListRow(<<StrV(<<"x", "y">>)>>)>>, <<>>, TRUE)

GroupTables == {TableOneList, TableOneDict, TableNoRows, TableNoCols, TableLongRow}

PureTables == {TableOneList, TableOneDict, TableLongRow}

Texts == SeqsUpTo({"a", SP}, MaxTextLen)

---------------------------------------------------------------------------
(* State: the tables a TextTables object holds, the last call and what it *)
(* returned.  first is a history variable: it remembers the tables as     *)
(* they were built and, when track is set, the first render call, what it  *)
(* returned and whether group has been called since.                       *)

NoCall ==
    [op |-> "none", i |-> 0, align |-> "", spacing |-> 0, text |-> <<>>, width |-> 0]

NoOut == [exc |-> "", lines |-> <<>>, text |-> <<>>, rendered_tables |-> <<>>]

NoFirst ==
    [track |-> FALSE, set |-> FALSE, i |-> 0, align |-> "", out |-> NoOut,
     built |-> <<>>, grouped |-> FALSE]

InitVars(ts, track) ==
    /\ tables = ts
    /\ call = NoCall
    /\ out = NoOut
    /\ first = [NoFirst EXCEPT !.track = track, !.built = ts]

\* TextTables(t) for one table of any shape
Init == \E t \in RichTables : InitVars(<<t>>, FALSE)

\* TextTables(*ts) for up to MaxTables tables
InitGroup == \E ts \in SeqsUpTo(GroupTables, MaxTables) : InitVars(ts, FALSE)

\* the same, with the first render call remembered
InitPure == \E ts \in SeqsUpTo(PureTables, MaxTables) : InitVars(ts, TRUE)

\* no table: _align_text alone
InitAlign == InitVars(<<>>, FALSE)

\* self.tables[i].render(align)
Render(i, align) ==
    \E r \in {render(tables[i], align)} :
        /\ tables' = [tables EXCEPT ![i] = r.self]
        /\ call' = [NoCall EXCEPT !.op = "render", !.i = i, !.align = align]
        /\ out' = [NoOut EXCEPT !.exc = r.exc, !.lines = r.lines]
        /\ first' = IF first.track /\ ~first.set
                    THEN [first EXCEPT !.set = TRUE, !.i = i, !.align = align,
                                       !.out = out']
                    ELSE first

\* self.group(spacing=spacing, align=align)
Group(spacing, align) ==
    \E g \in {group(tables, spacing, align)} :
        /\ tables' = g.tables
        /\ call' = [NoCall EXCEPT !.op = "group", !.align = align, !.spacing = spacing]
        /\ out' = [NoOut EXCEPT !.exc = g.exc, !.text = g.text,
                                !.rendered_tables = g.rendered_tables]
        /\ first' = IF first.set THEN [first EXCEPT !.grouped = TRUE] ELSE first

\* self._align_text(text, width, align)
AlignText(text, width, align) ==
    /\ call' = [NoCall EXCEPT !.op = "_align_text", !.align = align,
                              !.text = text, !.width = width]
    /\ out' = [NoOut EXCEPT !.text = _align_text(text, width, align)]
    /\ UNCHANGED <<tables, first>>

NextRender == \E i \in 1..Len(tables), align \in Aligns : Render(i, align)

NextGroup == \E spacing \in 0..MaxSpacing, align \in Aligns : Group(spacing, align)

NextAlign ==
    \E text \in Texts, width \in 0..MaxWidth, align \in Aligns :
        AlignText(text, width, align)

Next == NextRender \/ NextGroup

Spec == Init /\ [][NextRender]_vars

SpecGroup == InitGroup /\ [][NextGroup]_vars

SpecPure == InitPure /\ [][Next]_vars

SpecAlign == InitAlign /\ [][NextAlign]_vars

---------------------------------------------------------------------------
(* Reading a rendered table back *)

\* the pieces of s between the positions P, which are left out
SplitAt(s, P) ==
    LET Nth(j) == IF j = 0 THEN 0
                  ELSE IF j > Cardinality(P) THEN Len(s) + 1
                  ELSE CHOOSE p \in P : Cardinality({q \in P : q < p}) = j - 1
    IN  [j \in 1..(Cardinality(P) + 1) |-> SubSeq(s, Nth(j - 1) + 1, Nth(j) - 1)]

\* s.split(c) for a one-character separator c
Split(s, c) == Only({SplitAt(s, P) : P \in {{p \in 1..Len(s) : s[p] = c}}})

\* s.lstrip(" "), s.rstrip(" ") and s.strip(" ")
RECURSIVE LStrip(_)
LStrip(s) == IF s # <<>> /\ s[1] = SP THEN LStrip(Tail(s)) ELSE s

RECURSIVE RStrip(_)
RStrip(s) ==
    IF s # <<>> /\ s[Len(s)] = SP THEN RStrip(SubSeq(s, 1, Len(s) - 1)) ELSE s

Strip(s) == LStrip(RStrip(s))

\* the widths a border line draws: its segments between the junctions, less
\* the two padding positions
BorderWidths(line, junction) ==
    LET segs == Split(SubSeq(line, 2, Len(line) - 1), junction)
    IN  [k \in 1..Len(segs) |-> Len(segs[k]) - 2]

\* the cell texts a row line shows, without their alignment padding
RowCells(line) ==
    LET parts == Split(line, Vertical)
    IN  [k \in 1..(Len(parts) - 2) |-> Strip(parts[k + 1])]

\* a row of no cells and a row of one empty cell are drawn alike
Shown(values) == IF values = <<>> THEN <<<<>>>> ELSE values

\* the rows of a text: text.split("\n"), no row for the empty text
Rows(text) == IF text = <<>> THEN <<>> ELSE Split(text, NL)

RECURSIVE Sum(_)
Sum(ns) == IF ns = <<>> THEN 0 ELSE ns[1] + Sum(Tail(ns))

Rendered == call.op = "render" /\ out.exc = ""

Grouped == call.op = "group" /\ out.exc = ""

Aligned == call.op = "_align_text" /\ call.width >= Len(call.text)

---------------------------------------------------------------------------
(* C1: every line render returns for a table with at least one record has *)
(* the same length.                                                        *)

\* C1: all the lines of a rendered non-empty table are equally long
C1_Rectangular ==
    (Rendered /\ tables[call.i].data # <<>>) =>
        \A a, b \in 1..Len(out.lines) : Len(out.lines[a]) = Len(out.lines[b])

---------------------------------------------------------------------------
(* C2: the width every border line draws for column k is the largest of   *)
(* the length of header k and the lengths of the cell texts of column k.   *)

\* the lengths of the texts column k holds: its header, each dict record's
\* value under the header's name ("" when the key is missing), each list
\* record's k-th value when it has one
ColumnLens(t, k) ==
    {Len(t.headers[k])}
    \cup {Len(Str(DictGet(t.data[n], t.headers[k]))) :
             n \in {m \in 1..Len(t.data) : t.data[m].isdict}}
    \cup {Len(Str(t.data[n].items[k])) :
             n \in {m \in 1..Len(t.data) :
                      ~t.data[m].isdict /\ k <= Len(t.data[m].items)}}

JunctionOf(line) ==
    IF line[1] = TopLeft THEN TopTee
    ELSE IF line[1] = LeftTee THEN Cross
    ELSE BottomTee

\* C2: each column is drawn as wide as the longest of its header and cells
C2_ColumnWidths ==
    (Rendered /\ out.lines # <<>> /\ tables[call.i].headers # <<>>) =>
        \A n \in 1..Len(out.lines) :
            out.lines[n][1] \in {TopLeft, LeftTee, BottomLeft} =>
                \A w \in {BorderWidths(out.lines[n], JunctionOf(out.lines[n]))} :
                    /\ Len(w) = Len(tables[call.i].headers)
                    /\ \A k \in 1..Len(w) :
                          /\ w[k] = SetMax(ColumnLens(tables[call.i], k))
                          /\ \A x \in ColumnLens(tables[call.i], k) : w[k] >= x

\* a dict table of two columns rendered: one column as wide as a cell longer
\* than its header, one as wide as a header longer than all its cells
C2_Witness ==
    /\ Rendered /\ out.lines # <<>>
    /\ Len(tables[call.i].headers) = 2
    /\ tables[call.i].data[1].isdict
    /\ \E w \in {BorderWidths(out.lines[1], TopTee)} :
          \E j, k \in 1..2 :
              /\ w[j] > Len(tables[call.i].headers[j])
              /\ w[k] = Len(tables[call.i].headers[k])
              /\ \E x \in ColumnLens(tables[call.i], k) : x < w[k]

---------------------------------------------------------------------------
(* C4: a table without records renders to no lines, whatever its headers.  *)

\* C4: render of a table with an empty record list returns the empty list
C4_EmptyRendersEmpty ==
    (call.op = "render" /\ tables[call.i].data = <<>>) =>
        out.exc = "" /\ out.lines = <<>>

\* a table given headers but no records was rendered
C4_Witness ==
    /\ Rendered
    /\ tables[call.i].data = <<>>
    /\ tables[call.i].headers # <<>>

---------------------------------------------------------------------------
(* C5: the order and the number of the lines of a rendered table.          *)

HeaderRows(t) == IF t.header_padding THEN 2 ELSE 1

\* the lines of the rendered table t in their order: top border, header
\* row, padding row iff header_padding, separator, each record's row with a
\* divider after it unless it is the last, bottom border
LinesInOrder(t, h) ==
    /\ Len(out.lines) >= 2 + h + 2 * Len(t.data)
    /\ out.lines[1][1] = TopLeft
    /\ out.lines[2][1] = Vertical
    /\ RowCells(out.lines[2]) = Shown(t.headers)
    /\ t.header_padding =>
          /\ out.lines[3][1] = Vertical
          /\ \A k \in 1..Len(RowCells(out.lines[3])) :
                RowCells(out.lines[3])[k] = <<>>
    /\ out.lines[2 + h][1] = LeftTee
    /\ \A n \in 1..Len(t.data) :
          /\ out.lines[1 + h + 2 * n][1] = Vertical
          /\ RowCells(out.lines[1 + h + 2 * n])
                = Shown(_get_row_values(t.headers, t.data[n]))
          /\ n < Len(t.data) => out.lines[2 + h + 2 * n][1] = LeftTee
    /\ out.lines[2 + h + 2 * Len(t.data)][1] = BottomLeft

\* C5, as claimed: the lines come in that order and are 2N+2 in all, 2N+3
\* with header padding
C5_LineOrderAsClaimed ==
    (Rendered /\ tables[call.i].data # <<>>) =>
        \A t \in {tables[call.i]} :
            /\ LinesInOrder(t, HeaderRows(t))
            /\ Len(out.lines) = 2 * Len(t.data) + 1 + HeaderRows(t)

\* C5, amended: the lines come in that order, with N-1 dividers between the
\* N data rows and one header separator, and are 2N+3 in all, 2N+4 with
\* header padding
C5_LineOrder ==
    (Rendered /\ tables[call.i].data # <<>>) =>
        \A t \in {tables[call.i]} :
            /\ LinesInOrder(t, HeaderRows(t))
            /\ Len(out.lines) = 2 * Len(t.data) + 2 + HeaderRows(t)
            /\ Cardinality({n \in 1..Len(out.lines) : out.lines[n][1] = LeftTee})
                  = Len(t.data)

\* a table of two different records with header padding was rendered to
\* eight lines
C5_Witness ==
    /\ Rendered
    /\ Len(tables[call.i].data) = 2
    /\ tables[call.i].header_padding
    /\ tables[call.i].data[1] # tables[call.i].data[2]
    /\ Len(out.lines) = 8

---------------------------------------------------------------------------
(* C10: render returns lines and raises nothing, whatever the shape of the *)
(* records.                                                                *)

\* C10: no render call raises an exception
C10_RenderNeverRaises == call.op = "render" => out.exc = ""

---------------------------------------------------------------------------
(* C3: render changes nothing.  Whatever render and group calls are made,  *)
(* the stored tables are what they were built as, and a render call with   *)
(* the first render call's table and alignment returns what that call      *)
(* returned.                                                               *)

\* C3: the tables are never changed and a repeated render returns the same
\* lines as the first call
C3_RenderRepeatable ==
    /\ tables = first.built
    /\ (first.set /\ call.op = "render" /\ call.i = first.i
                  /\ call.align = first.align)
          => out = first.out

\* the shorter of two tables was rendered, group then padded its lines next
\* to the taller one, and it was rendered again with the same alignment
C3_Witness ==
    /\ first.set /\ first.grouped
    /\ call.op = "render" /\ call.i = first.i /\ call.align = first.align
    /\ out.lines # <<>>
    /\ \A j \in 1..Len(tables) : render(tables[j], "left").exc = ""
    /\ \E j \in 1..Len(tables) :
          Len(render(tables[j], "left").lines) > Len(out.lines)

---------------------------------------------------------------------------
(* C6: aligning a text to a width not less than its length gives a text of *)
(* exactly that width from which the text is recovered by removing the     *)
(* trailing spaces (left), the leading spaces (right) or both (center).    *)

Recovered(aligned, align) ==
    IF align = "left" THEN RStrip(aligned)
    ELSE IF align = "right" THEN LStrip(aligned)
    ELSE Strip(aligned)

\* C6, as claimed: for every text the stripped aligned text is the text
C6_RoundTripAnyText ==
    (Aligned /\ call.align \in {"left", "right", "center"}) =>
        /\ Len(out.text) = call.width
        /\ Recovered(out.text, call.align) = call.text

\* the text has no space where the alignment removes spaces
Unpadded(text, align) ==
    \/ text = <<>>
    \/ /\ align \in {"right", "center"} => text[1] # SP
       /\ align \in {"left", "center"} => text[Len(text)] # SP

\* C6, amended: the stripped aligned text is the text when the text itself
\* has no space on the stripped side
C6_RoundTrip ==
    (Aligned /\ call.align \in {"left", "right", "center"}
             /\ Unpadded(call.text, call.align)) =>
        /\ Len(out.text) = call.width
        /\ Recovered(out.text, call.align) = call.text

\* a text was right-aligned in a width two more than its length
C6_Witness ==
    /\ Aligned /\ call.align = "right"
    /\ call.text # <<>> /\ Unpadded(call.text, "right")
    /\ call.width = Len(call.text) + 2
    /\ out.text[1] = SP

---------------------------------------------------------------------------
(* C9: where center alignment puts the spaces.                             *)

\* the text between the given numbers of spaces
Between(lead, text, trail) == Repeat(SP, lead) \o text \o Repeat(SP, trail)

\* C9, as claimed: floor((W-L)/2) spaces lead and ceil((W-L)/2) trail
C9_CenterExtraRight ==
    (Aligned /\ call.align = "center") =>
        out.text = Between((call.width - Len(call.text)) \div 2, call.text,
                           (call.width - Len(call.text) + 1) \div 2)

\* C9, amended: the odd space trails when the width is even and leads when
\* the width is odd
C9_CenterPadding ==
    (Aligned /\ call.align = "center") =>
        \A pad \in {call.width - Len(call.text)} :
            out.text = IF call.width % 2 = 0
                       THEN Between(pad \div 2, call.text, (pad + 1) \div 2)
                       ELSE Between((pad + 1) \div 2, call.text, pad \div 2)

\* a text of even length was centered in an odd width: the odd space leads
C9_Witness ==
    /\ Aligned /\ call.align = "center"
    /\ call.text = <<"a", "a">>
    /\ call.width = 3
    /\ out.text = <<SP, "a", "a">>

---------------------------------------------------------------------------
(* C7 and C8: the text group returns.                                      *)

\* what each table renders to on its own, and the width group takes for it
OwnLines(i) == render(tables[i], call.align).lines

OwnWidth(i) == IF OwnLines(i) = <<>> THEN 0 ELSE Len(OwnLines(i)[1])

Height == SetMax({Len(OwnLines(i)) : i \in 1..Len(tables)})

\* C7: the text has as many rows as the tallest table has lines, each as
\* long as the widths of the tables and the gaps between them together;
\* no table gives the empty text
C7_GroupShape ==
    Grouped =>
        IF tables = <<>> THEN out.text = <<>>
        ELSE \A rows \in {Rows(out.text)} :
                /\ Len(rows) = Height
                /\ \A r \in 1..Len(rows) :
                      Len(rows[r]) = Sum([i \in 1..Len(tables) |-> OwnWidth(i)])
                                     + call.spacing * (Len(tables) - 1)

\* what table i puts into row r: its own line, or spaces of its own width
\* when it has no line r
OwnPart(i, r) ==
    IF r <= Len(OwnLines(i)) THEN OwnLines(i)[r] ELSE Repeat(SP, OwnWidth(i))

\* C8: every row of the text is the tables' own lines side by side, a table
\* with no line for the row giving spaces of its own width
C8_PaddingOwnWidth ==
    (Grouped /\ tables # <<>>) =>
        /\ \A i \in 1..Len(tables) :
              out.rendered_tables[i] = [r \in 1..Height |-> OwnPart(i, r)]
        /\ Rows(out.text) =
              [r \in 1..Height |->
                  Join(Repeat(SP, call.spacing),
                       [i \in 1..Len(tables) |-> OwnPart(i, r)])]

\* a table with lines stands left of a taller table of another width, with
\* a gap between them
C8_Witness ==
    /\ Grouped /\ Len(tables) = 2 /\ call.spacing > 0
    /\ OwnLines(1) # <<>>
    /\ Len(OwnLines(1)) < Len(OwnLines(2))
    /\ OwnWidth(1) # OwnWidth(2)
    /\ Len(Rows(out.text)) = Len(OwnLines(2))

===========================================================================
